---- MODULE Spec2Model ----
(***************************************************************************)
(* Model of the book repository of rusty-book-manager                      *)
(* (adapter/src/repository/book.rs): the books table and the five          *)
(* BookRepository operations, each one SQL statement (find_all: two) run   *)
(* against the tables, plus the checkout operations its tests drive.       *)
(***************************************************************************)
EXTENDS Integers, Sequences, FiniteSets, TLC

VARIABLES books, clock, checkouts, res

vars == <<books, clock, checkouts, res>>

(***************************************************************************)
(* Bounds of the model.                                                    *)
(***************************************************************************)
\* number of distinct book ids the database can hand out
MaxBooks == 2
\* number of inserts into books (each gets the next creation time)
MaxClock == 2
\* largest limit and largest offset a find_all is called with
MaxPage == 2
\* number of rows the checkouts table can hold
MaxCheckouts == 2

(***************************************************************************)
(* Value sets of the inputs.                                               *)
(***************************************************************************)
BookIds == 1..MaxBooks

CheckoutIds == 1..MaxCheckouts

\* the rows of the users table (never written by the book repository)
UsersTable == {[user_id |-> "u1", name |-> "name1"], [user_id |-> "u2", name |-> "name2"]}

\* user ids a request can carry: the registered ones and one that is in no row
UserIds == {"u1", "u2", "u3"}

\* title, author, isbn, description as submitted by a command
BookFields ==
    { [title |-> "t1", author |-> "a1", isbn |-> "i1", description |-> "d1"],
      [title |-> "t2", author |-> "a2", isbn |-> "i2", description |-> "d2"] }

NoFields == [title |-> "", author |-> "", isbn |-> "", description |-> ""]

EmptyList == [total |-> 0, limit |-> 0, offset |-> 0, items |-> <<>>]

\* the result slot before any operation has run; every operation overwrites it
NoRes ==
    [ op |-> "none", status |-> "none", book_id |-> 0, user |-> "", fields |-> NoFields,
      option |-> [limit |-> 0, offset |-> 0], list |-> EmptyList, book |-> <<>>,
      checkout_id |-> 0 ]

Min(a, b) == IF a <= b THEN a ELSE b

Range(s) == {s[i] : i \in 1..Len(s)}

(***************************************************************************)
(* ORDER BY b.created_at DESC                                              *)
(***************************************************************************)
RECURSIVE OrderByCreatedAtDesc(_)
OrderByCreatedAtDesc(rows) ==
    IF rows = {} THEN <<>>
    ELSE LET newest == CHOOSE b \in rows : \A o \in rows : o.created_at <= b.created_at
         IN  <<newest>> \o OrderByCreatedAtDesc(rows \ {newest})

(***************************************************************************)
(* create: INSERT INTO books (title, author, isbn, description, user_id)   *)
(***************************************************************************)
\* a slip in the VALUES order: isbn and description land in each other's column
NewBookRowSwapped(id, event, user_id, now) ==
    [ book_id |-> id, title |-> event.title, author |-> event.author,
      isbn |-> event.description, description |-> event.isbn, user_id |-> user_id,
      created_at |-> now ]

NewBookRow(id, event, user_id, now) ==
    [ book_id |-> id, title |-> event.title, author |-> event.author, isbn |-> event.isbn,
      description |-> event.description, user_id |-> user_id, created_at |-> now ]

\* books.user_id references users(user_id)
UserExists(user_id) == \E u \in UsersTable : u.user_id = user_id

\* res.book_id records the id the database generated; create itself returns ()
Create(event, user_id) ==
    /\ clock < MaxClock
    /\ IF UserExists(user_id)
       THEN \E id \in BookIds \ {b.book_id : b \in books} :
              /\ books' = books \cup {NewBookRow(id, event, user_id, clock + 1)}
              /\ clock' = clock + 1
              /\ res' = [NoRes EXCEPT !.op = "create", !.status = "Ok", !.book_id = id,
                                      !.user = user_id, !.fields = event]
       ELSE /\ UNCHANGED <<books, clock>>
            /\ res' = [NoRes EXCEPT !.op = "create", !.status = "SpecificOperationError",
                                    !.user = user_id, !.fields = event]
    /\ UNCHANGED checkouts

(***************************************************************************)
(* Row-to-domain mapping.  A BookRow carries the seven columns the SELECT  *)
(* lists of find_all and find_by_id name; Book::from builds the Book from  *)
(* that row alone, so the Book's checkout has no column to come from.      *)
(***************************************************************************)
BookRowOf(b, u) ==
    [ book_id |-> b.book_id, title |-> b.title, author |-> b.author, isbn |-> b.isbn,
      description |-> b.description, owned_by |-> u.user_id, owner_name |-> u.name ]

BookFromRow(row) ==
    [ id |-> row.book_id, title |-> row.title, author |-> row.author, isbn |-> row.isbn,
      description |-> row.description,
      owner |-> [id |-> row.owned_by, name |-> row.owner_name],
      checkout |-> <<>> ]

\* FROM books AS b INNER JOIN users AS u USING(user_id): the user row of a book row
OwnerRows(b) == {u \in UsersTable : u.user_id = b.user_id}

(***************************************************************************)
(* find_all, first query: SELECT the window count as total, b.book_id AS id  *)
(* FROM books ORDER BY created_at DESC LIMIT limit OFFSET offset.          *)
(* The window count is taken over all rows, before LIMIT and OFFSET cut.   *)
(***************************************************************************)
WindowOrder(tbl) == OrderByCreatedAtDesc(tbl)

WindowCount(tbl) == Cardinality(tbl)

\* a slip in the bind order: LIMIT gets the offset and OFFSET gets the limit
WindowQuerySwapped(tbl, limit, offset) ==
    LET ordered == WindowOrder(tbl)
        last == Min(limit + offset, Len(ordered))
        page == IF limit + 1 > last THEN <<>> ELSE SubSeq(ordered, limit + 1, last)
    IN  [i \in 1..Len(page) |-> [total |-> WindowCount(tbl), id |-> page[i].book_id]]

WindowQuery(tbl, limit, offset) ==
    LET ordered == WindowOrder(tbl)
        last == Min(offset + limit, Len(ordered))
        page == IF offset + 1 > last THEN <<>> ELSE SubSeq(ordered, offset + 1, last)
    IN  [i \in 1..Len(page) |-> [total |-> WindowCount(tbl), id |-> page[i].book_id]]

\* total taken as the number of rows of the page
TotalOfPage(rows) == Len(rows)

\* let total = rows.first().map(|r| r.total).unwrap_or_default()
TotalOf(rows) == IF Len(rows) = 0 THEN 0 ELSE rows[1].total

(***************************************************************************)
(* find_all, second query: books joined with users WHERE b.book_id IN      *)
(* (the ids of the first query) ORDER BY b.created_at DESC.                *)
(***************************************************************************)
RECURSIVE OrderByCreatedAtAsc(_)
OrderByCreatedAtAsc(rows) ==
    IF rows = {} THEN <<>>
    ELSE LET oldest == CHOOSE b \in rows : \A o \in rows : b.created_at <= o.created_at
         IN  <<oldest>> \o OrderByCreatedAtAsc(rows \ {oldest})

\* the detail query ordered ascending
DetailOrderAsc(rows) == OrderByCreatedAtAsc(rows)

DetailOrder(rows) == OrderByCreatedAtDesc(rows)

DetailQuery(tbl, book_ids) ==
    LET matched == {b \in tbl : b.book_id \in Range(book_ids) /\ OwnerRows(b) # {}}
        ordered == DetailOrder(matched)
    IN  [i \in 1..Len(ordered) |->
            BookRowOf(ordered[i], CHOOSE u \in OwnerRows(ordered[i]) : TRUE)]

\* total read from the table's row count instead of the first row of the window
FindAllResultCounted(tbl, option) ==
    LET rows == WindowQuery(tbl, option.limit, option.offset)
        book_ids == [i \in 1..Len(rows) |-> rows[i].id]
        detail == DetailQuery(tbl, book_ids)
    IN  [ total |-> WindowCount(tbl), limit |-> option.limit, offset |-> option.offset,
          items |-> [i \in 1..Len(detail) |-> BookFromRow(detail[i])] ]

FindAllResult(tbl, option) ==
    LET rows == WindowQuery(tbl, option.limit, option.offset)
        total == TotalOf(rows)
        book_ids == [i \in 1..Len(rows) |-> rows[i].id]
        detail == DetailQuery(tbl, book_ids)
    IN  [ total |-> total, limit |-> option.limit, offset |-> option.offset,
          items |-> [i \in 1..Len(detail) |-> BookFromRow(detail[i])] ]

FindAll(option) ==
    /\ res' = [NoRes EXCEPT !.op = "find_all", !.status = "Ok", !.option = option,
                            !.list = FindAllResult(books, option)]
    /\ UNCHANGED <<books, clock, checkouts>>

(***************************************************************************)
(* find_by_id: books joined with users WHERE book_id = $1, fetch_optional. *)
(* The optional Book is a sequence of length 0 (absent) or 1.              *)
(***************************************************************************)
FindByIdWhere(b, book_id) == b.book_id = book_id

FindByIdResult(tbl, book_id) ==
    LET matched == {b \in tbl : FindByIdWhere(b, book_id) /\ OwnerRows(b) # {}}
    IN  IF matched = {} THEN <<>>
        ELSE LET b == CHOOSE x \in matched : TRUE
             IN  <<BookFromRow(BookRowOf(b, CHOOSE u \in OwnerRows(b) : TRUE))>>

FindById(book_id) ==
    /\ res' = [NoRes EXCEPT !.op = "find_by_id", !.status = "Ok", !.book_id = book_id,
                            !.book = FindByIdResult(books, book_id)]
    /\ UNCHANGED <<books, clock, checkouts>>

(***************************************************************************)
(* update: UPDATE books SET title, author, isbn, description               *)
(* WHERE book_id = $5 AND user_id = $6; EntityNotFound when no row matched. *)
(***************************************************************************)
\* the WHERE clause without its owner condition
UpdateWhereAnyUser(b, book_id, requested_user) == b.book_id = book_id

UpdateWhere(b, book_id, requested_user) ==
    b.book_id = book_id /\ b.user_id = requested_user

\* the SET list without isbn
UpdatedRowNoIsbn(b, event) ==
    [b EXCEPT !.title = event.title, !.author = event.author,
              !.description = event.description]

UpdatedRow(b, event) ==
    [b EXCEPT !.title = event.title, !.author = event.author, !.isbn = event.isbn,
              !.description = event.description]

\* if res.rows_affected() < 1 { return Err(EntityNotFound) }
StatusOf(rows_affected) == IF rows_affected < 1 THEN "EntityNotFound" ELSE "Ok"

Update(book_id, event, requested_user) ==
    LET matched == {b \in books : UpdateWhere(b, book_id, requested_user)}
    IN  /\ books' = (books \ matched) \cup {UpdatedRow(b, event) : b \in matched}
        /\ res' = [NoRes EXCEPT !.op = "update", !.status = StatusOf(Cardinality(matched)),
                                !.book_id = book_id, !.user = requested_user,
                                !.fields = event]
        /\ UNCHANGED <<clock, checkouts>>

(***************************************************************************)
(* delete: DELETE FROM books WHERE book_id = $1 AND user_id = $2;          *)
(* EntityNotFound when no row matched.                                     *)
(***************************************************************************)
\* the WHERE clause without its owner condition
DeleteWhereAnyUser(b, book_id, requested_user) == b.book_id = book_id

DeleteWhere(b, book_id, requested_user) ==
    b.book_id = book_id /\ b.user_id = requested_user

Delete(book_id, requested_user) ==
    LET matched == {b \in books : DeleteWhere(b, book_id, requested_user)}
    IN  /\ books' = books \ matched
        /\ res' = [NoRes EXCEPT !.op = "delete", !.status = StatusOf(Cardinality(matched)),
                                !.book_id = book_id, !.user = requested_user]
        /\ UNCHANGED <<clock, checkouts>>

(***************************************************************************)
(* The book repository driven from an empty books table.                   *)
(***************************************************************************)
ListOptions == [limit : 0..MaxPage, offset : 0..MaxPage]

Init ==
    /\ books = {}
    /\ clock = 0
    /\ checkouts = {}
    /\ res = NoRes

Next ==
    \/ \E event \in BookFields, user_id \in UserIds : Create(event, user_id)
    \/ \E option \in ListOptions : FindAll(option)
    \/ \E book_id \in BookIds : FindById(book_id)
    \/ \E book_id \in BookIds, event \in BookFields, requested_user \in UserIds :
          Update(book_id, event, requested_user)
    \/ \E book_id \in BookIds, requested_user \in UserIds : Delete(book_id, requested_user)

Spec == Init /\ [][Next]_vars

(***************************************************************************)
(* The checkout repository, as far as the book repository's test drives    *)
(* it: create inserts an open checkout row (returned_at null) and          *)
(* update_returned marks the matching open row as returned.                *)
(***************************************************************************)
NewCheckoutRow(id, book_id, checked_out_by) ==
    [ checkout_id |-> id, book_id |-> book_id, checked_out_by |-> checked_out_by,
      returned_by |-> "", returned_at |-> "null" ]

\* checkouts.book_id references books(book_id)
BookExists(book_id) == \E b \in books : b.book_id = book_id

CheckoutCreate(book_id, checked_out_by) ==
    /\ Cardinality(checkouts) < MaxCheckouts
    /\ IF BookExists(book_id) /\ UserExists(checked_out_by)
       THEN \E id \in CheckoutIds \ {c.checkout_id : c \in checkouts} :
              /\ checkouts' = checkouts \cup {NewCheckoutRow(id, book_id, checked_out_by)}
              /\ res' = [NoRes EXCEPT !.op = "checkout_create", !.status = "Ok",
                                      !.book_id = book_id, !.user = checked_out_by,
                                      !.checkout_id = id]
       ELSE /\ UNCHANGED checkouts
            /\ res' = [NoRes EXCEPT !.op = "checkout_create",
                                    !.status = "SpecificOperationError",
                                    !.book_id = book_id, !.user = checked_out_by]
    /\ UNCHANGED <<books, clock>>

UpdateReturnedWhere(c, checkout_id, book_id) ==
    c.checkout_id = checkout_id /\ c.book_id = book_id /\ c.returned_at = "null"

UpdateReturned(checkout_id, book_id, returned_by) ==
    LET matched == {c \in checkouts : UpdateReturnedWhere(c, checkout_id, book_id)}
    IN  /\ checkouts' = (checkouts \ matched) \cup
                        {[c EXCEPT !.returned_by = returned_by, !.returned_at = "set"] :
                            c \in matched}
        /\ res' = [NoRes EXCEPT !.op = "update_returned",
                                !.status = IF matched = {} THEN "Failure" ELSE "Ok",
                                !.book_id = book_id, !.user = returned_by,
                                !.checkout_id = checkout_id]
        /\ UNCHANGED <<books, clock>>

\* the open checkouts of a book
OpenCheckouts(book_id) ==
    {c \in checkouts : c.book_id = book_id /\ c.returned_at = "null"}

(***************************************************************************)
(* The checkout test's setting: the books of the fixture are in the table, *)
(* no checkout exists, and checkouts, returns and reads follow in any      *)
(* order.                                                                  *)
(***************************************************************************)
FixtureFields == [title |-> "t1", author |-> "a1", isbn |-> "i1", description |-> "d1"]

FixtureBooks == {NewBookRow(id, FixtureFields, "u1", id) : id \in {1, 2}}

InitCheckout ==
    /\ books = FixtureBooks
    /\ clock = Cardinality(FixtureBooks)
    /\ checkouts = {}
    /\ res = NoRes

NextCheckout ==
    \/ \E book_id \in BookIds, checked_out_by \in UserIds :
          CheckoutCreate(book_id, checked_out_by)
    \/ \E checkout_id \in CheckoutIds, book_id \in BookIds, returned_by \in UserIds :
          UpdateReturned(checkout_id, book_id, returned_by)
    \/ \E book_id \in BookIds : FindById(book_id)

SpecCheckout == InitCheckout /\ [][NextCheckout]_vars

(***************************************************************************)
(* Properties.  res holds the result of the last operation together with   *)
(* its arguments; books (unprimed) is the table the operation ran on and   *)
(* books' the table it left.                                               *)
(***************************************************************************)
\* the row (book_id, requested_user) of an update or delete names, if any
OwnedRows(tbl, book_id, requested_user) ==
    {b \in tbl : b.book_id = book_id /\ b.user_id = requested_user}

\* position of a book, counted from 0, when all books are ordered newest first
Rank(tbl, b) == Cardinality({o \in tbl : o.created_at > b.created_at})

\* C1: update and delete fail with EntityNotFound when no book has the given
\* book_id and when the book's owner is not requested_user; they succeed exactly
\* when one row matches both.
C1_NotFoundUnlessOwned ==
    [][res'.op \in {"update", "delete"} =>
         IF OwnedRows(books, res'.book_id, res'.user) = {}
         THEN res'.status = "EntityNotFound"
         ELSE res'.status = "Ok" /\
              Cardinality(OwnedRows(books, res'.book_id, res'.user)) = 1]_vars

\* a failed update of an existing book by a user who does not own it
C1_Witness ==
    /\ res.op = "update"
    /\ res.status = "EntityNotFound"
    /\ \E b \in books : b.book_id = res.book_id /\ b.user_id # res.user

\* C2 as stated: total of every find_all equals the number of books whatever
\* limit and offset are, and there are at most limit items.
C2_TotalAlwaysFullCount ==
    res.op = "find_all" =>
        /\ res.list.total = Cardinality(books)
        /\ Len(res.list.items) <= res.option.limit

\* C2 amended: total equals the number of books when limit > 0 and offset is
\* below the number of books, and is 0 otherwise; there are at most limit items.
C2_TotalFullCountOfNonEmptyWindow ==
    res.op = "find_all" =>
        /\ res.list.total =
              IF res.option.limit > 0 /\ res.option.offset < Cardinality(books)
              THEN Cardinality(books) ELSE 0
        /\ Len(res.list.items) <= res.option.limit

\* a second page of one item out of two books, whose total is 2
C2_Witness ==
    /\ res.op = "find_all"
    /\ Cardinality(books) = 2
    /\ res.option = [limit |-> 1, offset |-> 1]
    /\ Len(res.list.items) = 1
    /\ res.list.total = 2

\* C3 as stated: with offset at or beyond the number of books, items is empty
\* and total is the true number of books; total is 0 only for an empty table.
C3_TrueTotalBeyondRange ==
    res.op = "find_all" =>
        /\ res.option.offset >= Cardinality(books) =>
              res.list.items = <<>> /\ res.list.total = Cardinality(books)
        /\ res.list.total = 0 => books = {}

\* C3 amended: with offset at or beyond the number of books, items is empty and
\* total is 0, whether or not the table is empty.
C3_ZeroTotalBeyondRange ==
    res.op = "find_all" /\ res.option.offset >= Cardinality(books) =>
        res.list.items = <<>> /\ res.list.total = 0

\* a find_all beyond the last book of a non-empty table
C3_Witness ==
    /\ res.op = "find_all"
    /\ books # {}
    /\ res.option.limit > 0
    /\ res.option.offset >= Cardinality(books)

\* C8: when no book stands at positions offset .. offset+limit-1, find_all
\* returns total 0, no items, and the limit and offset it was called with.
C8_EmptyWindowTotalZero ==
    res.op = "find_all" /\
    (\A b \in books : Rank(books, b) < res.option.offset \/
                      Rank(books, b) >= res.option.offset + res.option.limit) =>
        /\ res.list.total = 0
        /\ res.list.items = <<>>
        /\ res.list.limit = res.option.limit
        /\ res.list.offset = res.option.offset

\* an empty window over a table of two books
C8_Witness ==
    /\ res.op = "find_all"
    /\ Cardinality(books) = 2
    /\ res.option.offset = 2
    /\ res.list.total = 0

C10_Frame ==
    [][res'.op \in {"update", "delete"} =>
         /\ res'.status \in {"Ok", "EntityNotFound"}
         /\ res'.status = "EntityNotFound" => books' = books
         /\ res'.op = "update" /\ res'.status = "Ok" =>
               \E b \in books :
                  /\ b.book_id = res'.book_id
                  /\ books' = (books \ {b}) \cup
                        {[ book_id |-> b.book_id, title |-> res'.fields.title,
                           author |-> res'.fields.author, isbn |-> res'.fields.isbn,
                           description |-> res'.fields.description,
                           user_id |-> b.user_id, created_at |-> b.created_at ]}
         /\ res'.op = "delete" /\ res'.status = "Ok" =>
               \E b \in books : b.book_id = res'.book_id /\ books' = books \ {b}
         /\ \A b \in books : b.user_id # res'.user => b \in books'
         /\ clock' = clock]_vars

\* a successful delete that left another book in the table
C10_Witness ==
    /\ res.op = "delete"
    /\ res.status = "Ok"
    /\ books # {}
    /\ \A b \in books : b.book_id # res.book_id

\* the items of a find_all whose limit exceeds the number of books that carry
\* the given fields and owner
MatchingItems(tbl, fields, owner_id) ==
    LET list == FindAllResult(tbl, [limit |-> Cardinality(tbl) + 1, offset |-> 0])
    IN  {i \in 1..Len(list.items) :
            /\ list.items[i].title = fields.title
            /\ list.items[i].author = fields.author
            /\ list.items[i].isbn = fields.isbn
            /\ list.items[i].description = fields.description
            /\ list.items[i].owner.id = owner_id}

\* C6 as stated: right after a successful create, a find_all with a limit above
\* the number of books holds exactly one book with the submitted fields and
\* owner.
C6_ExactlyOneMatch ==
    [][res'.op = "create" /\ res'.status = "Ok" =>
         Cardinality(MatchingItems(books', res'.fields, res'.user)) = 1]_vars

\* C6 amended: right after a successful create, such a find_all holds one more
\* book with the submitted fields and owner than it held before, the created
\* one (under the id the database gave it) among them; that is exactly one
\* when no book with these fields and owner existed before.
C6_OneMoreMatch ==
    [][res'.op = "create" /\ res'.status = "Ok" =>
         LET list == FindAllResult(books', [limit |-> Cardinality(books') + 1, offset |-> 0])
             before == MatchingItems(books, res'.fields, res'.user)
             after == MatchingItems(books', res'.fields, res'.user)
         IN  /\ Cardinality(after) = Cardinality(before) + 1
             /\ \E i \in after : list.items[i].id = res'.book_id
             /\ Len(list.items) = Cardinality(books)  + 1]_vars

\* a successful create of a book whose fields and owner another book already has
C6_Witness ==
    /\ res.op = "create"
    /\ res.status = "Ok"
    /\ Cardinality(MatchingItems(books, res.fields, res.user)) = 2

\* C7: after a successful update find_by_id returns the updated title, author,
\* isbn and description; after a successful delete find_by_id returns absent,
\* and an absent id becomes present again only by a create that is given it.
C7_UpdateVisibleDeleteAbsent ==
    [][/\ res'.op = "update" /\ res'.status = "Ok" =>
             LET found == FindByIdResult(books', res'.book_id)
             IN  /\ Len(found) = 1
                 /\ found[1].id = res'.book_id
                 /\ found[1].title = res'.fields.title
                 /\ found[1].author = res'.fields.author
                 /\ found[1].isbn = res'.fields.isbn
                 /\ found[1].description = res'.fields.description
       /\ res'.op = "delete" /\ res'.status = "Ok" =>
             FindByIdResult(books', res'.book_id) = <<>>
       /\ \A id \in BookIds :
             FindByIdResult(books, id) = <<>> /\ FindByIdResult(books', id) # <<>> =>
                res'.op = "create" /\ res'.status = "Ok" /\ res'.book_id = id]_vars

\* a successful update of a book that find_by_id then returns with the new
\* fields, in a table an earlier delete has taken a book from
C7_Witness ==
    /\ res.op = "update"
    /\ res.status = "Ok"
    /\ clock > Cardinality(books)
    /\ FindByIdResult(books, res.book_id) # <<>>
    /\ FindByIdResult(books, res.book_id)[1].author = res.fields.author

\* C4: find_by_id of a book reports the book's open checkout with its borrower
\* while one is open (so the borrower of the latest checkout, never of a
\* returned one), and no checkout when none is open.
C4_FindByIdReportsOpenCheckout ==
    res.op = "find_by_id" /\ Len(res.book) = 1 =>
        LET open == OpenCheckouts(res.book_id)
            reported == res.book[1].checkout
        IN  /\ open = {} => reported = <<>>
            /\ Cardinality(open) = 1 =>
                  /\ Len(reported) = 1
                  /\ \E c \in open : reported[1].checked_out_by = c.checked_out_by

\* C5: every book has at most one open checkout.
C5_AtMostOneOpenCheckout ==
    \A book_id \in BookIds : Cardinality(OpenCheckouts(book_id)) <= 1

====
